---- MODULE Spec2Model ----
(***************************************************************************)
(* sighelper.py: strings common to every APK of a directory.                *)
(*                                                                          *)
(* Text is modelled by TLA+ strings; Len, \o and SubSeq act on them as on   *)
(* Python byte strings.  The two external tools (dexstrings, strings), the  *)
(* zip archives and the temporary-directory allocator are the environment:  *)
(* the archive table below fixes what the tools print for each file, and    *)
(* the code's parsing of that output is modelled character by character.    *)
(***************************************************************************)
EXTENDS Integers, Sequences, FiniteSets, TLC

(***************************************************************************)
(* Bounds of the model.                                                     *)
(***************************************************************************)
\* longest directory listing explored
MaxApks == 3

(***************************************************************************)
(* Python string primitives used by the code.                               *)
(***************************************************************************)
Char(s, i) == SubSeq(s, i, i)

\* s[from:] and s[:to] with 1-based inclusive positions, clamped like a slice
Slice(s, from, to) == IF from > to \/ from > Len(s) THEN "" ELSE SubSeq(s, from, to)

\* position of the first c at or after i, Len(s)+1 when there is none
RECURSIVE Find(_, _, _)
Find(s, c, i) ==
    IF i > Len(s) THEN Len(s) + 1
    ELSE IF Char(s, i) = c THEN i ELSE Find(s, c, i + 1)

\* position of the first occurrence of t in s at or after i, 0 when none
RECURSIVE FindSub(_, _, _)
FindSub(s, t, i) ==
    IF i + Len(t) - 1 > Len(s) THEN 0
    ELSE IF Slice(s, i, i + Len(t) - 1) = t THEN i ELSE FindSub(s, t, i + 1)

\* s.replace(old, new, 1)
replace1(s, old, new) ==
    LET i == FindSub(s, old, 1)
    IN  IF i = 0 THEN s
        ELSE Slice(s, 1, i - 1) \o new \o Slice(s, i + Len(old), Len(s))

\* text.splitlines(), for "\n" line ends
RECURSIVE splitlines(_)
splitlines(text) ==
    IF text = "" THEN << >>
    ELSE LET k == Find(text, "\n", 1)
         IN  << Slice(text, 1, k - 1) >> \o splitlines(Slice(text, k + 1, Len(text)))

Whitespace == {" ", "\t", "\n", "\r", "\f"}

RECURSIVE lstrip(_)
lstrip(s) ==
    IF s # "" /\ Char(s, 1) \in Whitespace THEN lstrip(Slice(s, 2, Len(s))) ELSE s

RECURSIVE rstrip(_)
rstrip(s) ==
    IF s # "" /\ Char(s, Len(s)) \in Whitespace THEN rstrip(Slice(s, 1, Len(s) - 1)) ELSE s

\* s.strip()
strip(s) == rstrip(lstrip(s))

\* '|'.join(s.split('|')[:3]): s up to, not including, its third '|'
JoinFirst3(s) ==
    LET p1 == Find(s, "|", 1)
        p2 == Find(s, "|", p1 + 1)
        p3 == Find(s, "|", p2 + 1)
    IN  Slice(s, 1, p3 - 1)

Digits == "0123456789"

DigitVal(c) == CHOOSE d \in 0..9 : Char(Digits, d + 1) = c

\* int(s) for a string of decimal digits
RECURSIVE int(_)
int(s) ==
    IF Len(s) = 0 THEN 0
    ELSE 10 * int(Slice(s, 1, Len(s) - 1)) + DigitVal(Char(s, Len(s)))

\* name.endswith(suffix)
endswith(name, suffix) ==
    Len(name) >= Len(suffix) /\ Slice(name, Len(name) - Len(suffix) + 1, Len(name)) = suffix

RECURSIVE JoinLines(_)
JoinLines(lines) ==
    IF lines = << >> THEN ""
    ELSE IF Len(lines) = 1 THEN lines[1]
    ELSE lines[1] \o "\n" \o JoinLines(Tail(lines))

\* the elements of a sequence
Range(q) == { q[i] : i \in 1..Len(q) }

\* a set in the order an iteration visits it
RECURSIVE IterOrder(_)
IterOrder(S) ==
    IF S = {} THEN << >>
    ELSE LET x == CHOOSE x \in S : TRUE IN << x >> \o IterOrder(S \ {x})

(***************************************************************************)
(* The environment: the directory of archives and what the tools print.     *)
(* A file of an archive is [name, isdex, dexout, runs]: dexout is what      *)
(* `dexstrings` prints for it (isdex = FALSE: the tool exits non-zero), and *)
(* runs are the printable runs `strings` finds in its bytes.                *)
(***************************************************************************)
apksdir == "in"

TempDirs == {"/tmp/t1", "/tmp/t2"}

DexHeader == "dexstrings\nfile: classes.dex\nstrings:\n--\n"

NotDex == "error: not a dex file"

ApkNames == {"a.apk", "b.apk", "c.apk", "e.apk"}

ApkFiles(apk) ==
    CASE apk = "a.apk" ->
           { [name |-> "classes.dex", isdex |-> TRUE,
              dexout |-> DexHeader \o "0 | 3 | 3 | .:foo:.\n1 | 3 | 3 | .:bar:.\n2 | 13 | 13 | .:hardcoded_key:.",
              runs |-> << "bar", "  ab " >>],
             [name |-> "res.txt", isdex |-> FALSE, dexout |-> NotDex,
              runs |-> << "baz", "hardcoded_key", "x" >>] }
      [] apk = "b.apk" ->
           { [name |-> "classes.dex", isdex |-> TRUE,
              dexout |-> DexHeader \o "0 | 3 | 3 | .:bar:.\n1 | 3 | 3 | .:qux:.\n2 | 2 | 2 | .:a|:.",
              runs |-> << " baz" >>],
             [name |-> "b/M.smali", isdex |-> FALSE, dexout |-> NotDex,
              runs |-> << "hardcoded_key", "bar\t" >>] }
      [] apk = "c.apk" ->
           { [name |-> "classes.dex", isdex |-> TRUE,
              dexout |-> DexHeader \o "0 | 3 | 3 | .:qux:.",
              runs |-> << "qux" >>] }
      [] OTHER ->
           { [name |-> "note.txt", isdex |-> FALSE, dexout |-> NotDex,
              runs |-> << "ab" >>] }

\* what `strings -n strings_len` prints for a file: its runs of that length or more
StringsOutput(f, strings_len) ==
    JoinLines(SelectSeq(f.runs, LAMBDA r : Len(r) >= int(strings_len)))

(***************************************************************************)
(* The functions of sighelper.py.                                           *)
(***************************************************************************)
\* one line "ID | I1 | I2 | .:STRING:." of the dexstrings table -> STRING
DexLine(s) ==
    LET t == replace1(s, JoinFirst3(s), "")
    IN  Slice(t, 5, Len(t) - 2)

get_from_dexstrings(f) ==
    IF ~f.isdex THEN {}
    ELSE LET strings == splitlines(f.dexout)
         IN  { DexLine(strings[k]) : k \in 5..Len(strings) }

get_from_strings_cmd(f, strings_len) ==
    LET strings == splitlines(StringsOutput(f, strings_len))
    IN  { strip(strings[k]) : k \in 1..Len(strings) }

get_strings_from_file(f, strings_len) ==
    get_from_dexstrings(f) \cup get_from_strings_cmd(f, strings_len)

\* filter_by_size with `<=` for `<` at line 113
filter_by_size_off_by_one(strings, strings_len) ==
    LET to_remove == { string \in strings : Len(string) <= int(strings_len) }
    IN  strings \ to_remove

filter_by_size(strings, strings_len) ==
    LET to_remove == { string \in strings : Len(string) < int(strings_len) }
    IN  strings \ to_remove

\* add_strings_to_map with `map_strings[string] = set([file_combo])` at line 104
add_strings_to_map_overwrite(map, strings, file_path, apk) ==
    LET file_combo == file_path \o ":" \o apk
    IN  [string \in DOMAIN map \cup strings |->
            IF string \in strings THEN {file_combo} ELSE map[string]]

add_strings_to_map(map, strings, file_path, apk) ==
    LET file_combo == file_path \o ":" \o apk
    IN  [string \in DOMAIN map \cup strings |->
            IF string \in strings
            THEN (IF string \in DOMAIN map THEN map[string] ELSE {}) \cup {file_combo}
            ELSE map[string]]

log(debug, msg) == IF debug THEN << "[+] " \o msg >> ELSE << >>

warn(msg) == << "[!] " \o msg >>

SrcLines(srcs) == [k \in 1..Len(srcs) |-> "\tFound in " \o srcs[k]]

RECURSIVE CandidateLines(_, _)
CandidateLines(q, map) ==
    IF q = << >> THEN << >>
    ELSE << "Candidate: " \o Head(q) >> \o SrcLines(IterOrder(map[Head(q)]))
           \o CandidateLines(Tail(q), map)

print_strings(common, map) == CandidateLines(IterOrder(common), map)

\* lines 162-166: seed the running intersection or intersect it
UpdateCommon(common, cur) ==
    IF Cardinality(common) = 0 THEN cur ELSE common \cap cur

\* lines 170-171 with the test inverted
WarnIfEmpty_inverted(common) ==
    IF Cardinality(common) # 0 THEN warn("No common strings found") ELSE << >>

\* lines 170-171
WarnIfEmpty(common) ==
    IF Cardinality(common) = 0 THEN warn("No common strings found") ELSE << >>

\* lines 173-177
Listing(common, map, src) ==
    IF src THEN print_strings(common, map) ELSE IterOrder(common)

(***************************************************************************)
(* State.                                                                    *)
(*   apks, whitelist, strings_len, printsrc, ONLY_DEX, DEBUG: the inputs     *)
(*     (directory listing, content of the whitelist file, arguments);        *)
(*   i: position of the `for apk in apks` loop;                              *)
(*   pc: "loop" at the head of that loop, "walk" inside os.walk of one       *)
(*     archive, "done" after a normal exit (status 0), "fault" after an      *)
(*     uncaught exception (non-zero status);                                 *)
(*   todo: files of the current archive not yet visited;                     *)
(*   dirs: temporary directories that exist on the filesystem;               *)
(*   out: lines written to standard output;                                  *)
(*   apk_sets: history of the value of str_curr_apk at the end of each       *)
(*     archive (not a variable of the program).                              *)
(***************************************************************************)
VARIABLES apks, whitelist, strings_len, printsrc, ONLY_DEX, DEBUG,
          i, pc, unzipped_dir, todo, str_curr_apk, common_strings,
          map_strings, dirs, out, apk_sets

inputs == << apks, whitelist, strings_len, printsrc, ONLY_DEX, DEBUG >>

vars == << apks, whitelist, strings_len, printsrc, ONLY_DEX, DEBUG,
           i, pc, unzipped_dir, todo, str_curr_apk, common_strings,
           map_strings, dirs, out, apk_sets >>

\* os.listdir: the names of a directory, each once, in any order
Listings ==
    { q \in UNION { [1..n -> ApkNames] : n \in 0..MaxApks } :
        \A j, k \in DOMAIN q : j # k => q[j] # q[k] }

Whitelists == { {}, {"baz", "hardcoded_key", "zzz"} }

StringsLens == {"3", "10"}

Init ==
    /\ apks \in Listings
    /\ whitelist \in Whitelists
    /\ strings_len \in StringsLens
    /\ printsrc \in BOOLEAN
    /\ ONLY_DEX \in BOOLEAN
    /\ DEBUG \in BOOLEAN
    /\ i = 1
    /\ pc = "loop"
    /\ unzipped_dir = ""
    /\ todo = {}
    /\ str_curr_apk = {}
    /\ common_strings = {}
    /\ map_strings = << >>
    /\ dirs = {}
    /\ out = << >>
    /\ apk_sets = << >>

\* lines 69-78: mkdtemp creates a directory that did not exist, then the
\* archive is extracted into it
unzip_apk(d) ==
    /\ d \notin dirs
    /\ dirs' = dirs \cup {d}

\* lines 147-153: the next archive is unzipped and its files are listed
NextApk ==
    /\ pc = "loop"
    /\ i <= Len(apks)
    /\ \E d \in TempDirs :
        /\ unzip_apk(d)
        /\ unzipped_dir' = d
        /\ out' = out \o log(DEBUG, "Found apk " \o apks[i])
                      \o log(DEBUG, "Unzipping " \o apksdir \o "/" \o apks[i])
                      \o log(DEBUG, "Getting strings from " \o d)
    /\ str_curr_apk' = {}
    /\ todo' = ApkFiles(apks[i])
    /\ pc' = "walk"
    /\ UNCHANGED << inputs, i, common_strings, map_strings, apk_sets >>

\* lines 74-76: ZipFile or extractall raises after mkdtemp (an unreadable or
\* corrupt archive); nothing catches it
UnzipFails ==
    /\ pc = "loop"
    /\ i <= Len(apks)
    /\ \E d \in TempDirs : unzip_apk(d)
    /\ out' = out \o log(DEBUG, "Found apk " \o apks[i])
                  \o log(DEBUG, "Unzipping " \o apksdir \o "/" \o apks[i])
    /\ pc' = "fault"
    /\ UNCHANGED << inputs, i, unzipped_dir, todo, str_curr_apk, common_strings,
                    map_strings, apk_sets >>

\* line 157
Skipped(f) == ONLY_DEX /\ ~(endswith(f.name, ".smali") \/ endswith(f.name, ".dex"))

\* lines 155-161 with lines 159 and 160 exchanged: the index is updated
\* before the size filter runs
VisitFile_index_before_filter(f) ==
    /\ pc = "walk"
    /\ f \in todo
    /\ todo' = todo \ {f}
    /\ IF Skipped(f)
       THEN UNCHANGED << map_strings, str_curr_apk >>
       ELSE LET file_path == unzipped_dir \o "/" \o f.name
                strings == get_strings_from_file(f, strings_len)
            IN  /\ map_strings' = add_strings_to_map(map_strings, strings, file_path, apks[i])
                /\ str_curr_apk' = str_curr_apk \cup filter_by_size(strings, strings_len)
    /\ UNCHANGED << inputs, i, pc, unzipped_dir, common_strings, dirs, out, apk_sets >>

\* lines 155-161: one file of the walk
VisitFile(f) ==
    /\ pc = "walk"
    /\ f \in todo
    /\ todo' = todo \ {f}
    /\ IF Skipped(f)
       THEN UNCHANGED << map_strings, str_curr_apk >>
       ELSE LET file_path == unzipped_dir \o "/" \o f.name
                strings == filter_by_size(get_strings_from_file(f, strings_len), strings_len)
            IN  /\ map_strings' = add_strings_to_map(map_strings, strings, file_path, apks[i])
                /\ str_curr_apk' = str_curr_apk \cup strings
    /\ UNCHANGED << inputs, i, pc, unzipped_dir, common_strings, dirs, out, apk_sets >>

\* line 51: check_output raises when `strings` exits non-zero; nothing catches it
StringsFails(f) ==
    /\ pc = "walk"
    /\ f \in todo
    /\ ~Skipped(f)
    /\ pc' = "fault"
    /\ UNCHANGED << inputs, i, unzipped_dir, todo, str_curr_apk, common_strings,
                    map_strings, dirs, out, apk_sets >>

\* lines 162-168: the archive's set is folded into common_strings and the
\* temporary directory is removed
FoldApk ==
    /\ pc = "walk"
    /\ todo = {}
    /\ common_strings' = UpdateCommon(common_strings, str_curr_apk)
    /\ out' = out \o log(DEBUG, "Removing dir " \o unzipped_dir)
    /\ dirs' = dirs \ {unzipped_dir}
    /\ apk_sets' = Append(apk_sets, str_curr_apk)
    /\ i' = i + 1
    /\ pc' = "loop"
    /\ UNCHANGED << inputs, unzipped_dir, todo, str_curr_apk, map_strings >>

\* lines 170-177: the warning and the listing; map_strings[string] of line
\* 124 raises KeyError for a string that is no key
Report ==
    /\ pc = "loop"
    /\ i > Len(apks)
    /\ IF printsrc /\ ~(common_strings \subseteq DOMAIN map_strings)
       THEN /\ out' = out \o WarnIfEmpty(common_strings)
            /\ pc' = "fault"
       ELSE /\ out' = out \o WarnIfEmpty(common_strings)
                          \o Listing(common_strings, map_strings, printsrc)
            /\ pc' = "done"
    /\ UNCHANGED << inputs, i, unzipped_dir, todo, str_curr_apk, common_strings,
                    map_strings, dirs, apk_sets >>

Next ==
    \/ NextApk
    \/ UnzipFails
    \/ \E f \in todo : VisitFile(f)
    \/ \E f \in todo : StringsFails(f)
    \/ FoldApk
    \/ Report

Spec == Init /\ [][Next]_vars

(***************************************************************************)
(* Operators used to state the properties.                                  *)
(***************************************************************************)
\* the intersection of a non-empty sequence of sets
RECURSIVE InterAll(_)
InterAll(q) == IF Len(q) = 1 THEN q[1] ELSE q[1] \cap InterAll(Tail(q))

\* the value of common_strings after the loop of lines 147-166 has folded
\* the per-archive sets q, in that order, into common
RECURSIVE RunLoop(_, _)
RunLoop(common, q) ==
    IF q = << >> THEN common ELSE RunLoop(UpdateCommon(common, Head(q)), Tail(q))

Orders(n) == { p \in [1..n -> 1..n] : \A j, k \in 1..n : j # k => p[j] # p[k] }

\* the main loop has ended
LoopEnded == pc = "done" \/ (pc = "loop" /\ i > Len(apks))

\* the strings the reporter has emitted
ReportedStrings ==
    LET known == DOMAIN map_strings \cup whitelist \cup common_strings
    IN  IF printsrc THEN { s \in known : ("Candidate: " \o s) \in Range(out) }
        ELSE { s \in known : s \in Range(out) }

\* a location "<file_path>:<archive>" of archive apk
LocationOf(loc, apk) == endswith(loc, ":" \o apk)

\* the files of the current archive the walk has visited and not skipped
Extracted == { f \in ApkFiles(apks[i]) \ todo : ~Skipped(f) }

SampleStrings == {"ab", "foo", "0123456789"}

(***************************************************************************)
(* C1: after the k-th archive (k >= 1) has been processed, common_strings   *)
(* is the intersection of the k per-archive sets.  The code seeds by        *)
(* len(common_strings) == 0, so an empty first or intermediate set breaks   *)
(* it.                                                                      *)
(***************************************************************************)
C1_RunningIntersection ==
    Len(apk_sets) >= 1 => common_strings = InterAll(apk_sets)

(***************************************************************************)
(* C2: the reported set is the final intersection minus the whitelist.      *)
(* The code never reads the whitelist.                                      *)
(***************************************************************************)
C2_WhitelistSubtracted ==
    pc = "done" => ReportedStrings = common_strings \ whitelist

(***************************************************************************)
(* C3: at the end of the main loop common_strings is what any other order   *)
(* of the same archives would have produced.                                *)
(***************************************************************************)
C3_OrderIndependent ==
    LoopEnded =>
        \A p \in Orders(Len(apk_sets)) :
            RunLoop({}, [k \in 1..Len(apk_sets) |-> apk_sets[p[k]]]) = common_strings

(***************************************************************************)
(* C4: once an archive has been processed and common_strings is empty, it   *)
(* stays empty.                                                             *)
(***************************************************************************)
C4_EmptyIsTerminal ==
    [][(Len(apk_sets) >= 1 /\ common_strings = {}) => common_strings' = {}]_vars

(***************************************************************************)
(* C5: when the processing of an archive has ended, normally or by an       *)
(* exception, the temporary directory made for it no longer exists.         *)
(***************************************************************************)
C5_ScratchDeleted ==
    pc \in {"loop", "done", "fault"} => dirs = {}

(***************************************************************************)
(* C6: in provenance mode, with two or more archives, every reported string *)
(* has in map_strings a location of every archive processed.                *)
(***************************************************************************)
C6_LocationsFromEveryApk ==
    (pc = "done" /\ printsrc /\ Len(apks) >= 2) =>
        \A s \in ReportedStrings : \A k \in 1..Len(apks) :
            \E loc \in map_strings[s] : LocationOf(loc, apks[k])

(***************************************************************************)
(* C7: with no archive in the directory the run ends normally, the result   *)
(* is empty, the output is the one warning and no candidate.                *)
(***************************************************************************)
C7_EmptyBatch ==
    Len(apks) = 0 =>
        \/ pc = "loop" /\ out = << >> /\ ENABLED Report
        \/ /\ pc = "done"
           /\ common_strings = {}
           /\ ReportedStrings = {}
           /\ out = << "[!] No common strings found" >>

C7_Witness == Len(apks) = 0 /\ pc = "done"

(***************************************************************************)
(* C8: map_strings only grows: no step removes a key or a location of a     *)
(* key; and recording a (strings, location) pair a second time changes      *)
(* nothing.                                                                 *)
(***************************************************************************)
C8_Monotone ==
    \A s \in DOMAIN map_strings :
        s \in DOMAIN map_strings' /\ map_strings[s] \subseteq map_strings'[s]

C8_Idempotent ==
    \A S \in SUBSET {"foo", "bar", "new"} : \A apk \in {"a.apk", "n.apk"} :
        LET once == add_strings_to_map(map_strings, S, "/tmp/t1/classes.dex", apk)
        IN  /\ add_strings_to_map(once, S, "/tmp/t1/classes.dex", apk) = once
            /\ \A s \in S : ("/tmp/t1/classes.dex:" \o apk) \in once[s]

C8_IndexGrows == [][C8_Monotone]_vars /\ []C8_Idempotent

C8_Witness ==
    /\ Len(apk_sets) >= 2
    /\ \E s \in DOMAIN map_strings :
          s \notin common_strings /\ Cardinality(map_strings[s]) >= 2

(***************************************************************************)
(* C9: filter_by_size(S, n) is exactly the strings of S of length >= n, for *)
(* every S (the empty set too), and filtering twice changes nothing; the    *)
(* strings an archive has accumulated are those of its files that pass.     *)
(***************************************************************************)
C9_FilterBySize ==
    /\ \A S \in SUBSET SampleStrings :
          LET R == filter_by_size(S, strings_len)
          IN  /\ R = { e \in S : Len(e) >= int(strings_len) }
              /\ filter_by_size(R, strings_len) = R
    /\ pc = "walk" =>
          str_curr_apk = UNION { { e \in get_strings_from_file(f, strings_len) :
                                      Len(e) >= int(strings_len) } : f \in Extracted }

C9_Witness ==
    /\ pc = "walk"
    /\ \E f \in Extracted :
          /\ \E e \in get_strings_from_file(f, strings_len) : e \notin str_curr_apk
          /\ \E e \in get_strings_from_file(f, strings_len) : e \in str_curr_apk

(***************************************************************************)
(* C10: every string of common_strings is a key of map_strings with a      *)
(* location, every key has the minimum length, and the lookup of            *)
(* print_strings never misses (no fault after the loop).                    *)
(***************************************************************************)
C10_CommonIsIndexed ==
    /\ \A s \in common_strings : s \in DOMAIN map_strings /\ map_strings[s] # {}
    /\ \A s \in DOMAIN map_strings : Len(s) >= int(strings_len) /\ map_strings[s] # {}
    /\ pc = "fault" => i <= Len(apks)

C10_Witness ==
    /\ pc = "done"
    /\ printsrc
    /\ Len(apk_sets) >= 2
    /\ \E s \in common_strings : ("Candidate: " \o s) \in Range(out)

====
